---- MODULE Spec2Model ----
(***************************************************************************)
(* HireHiker: the relational store (problems, sessions, messages,          *)
(* analyses), the server functions that read and write it, the             *)
(* chat-completion tool-calling loop and the WebContainer singleton.       *)
(*                                                                         *)
(* Server functions are unauthenticated RPC endpoints: a request may come  *)
(* from any browser tab, including one that shows a stale snapshot of a    *)
(* session, so a request carries any id that was ever handed out (or an    *)
(* id that never existed).  Every `await` of a handler is a point where    *)
(* other requests run, so a handler is one action per awaited statement.   *)
(***************************************************************************)
EXTENDS Integers, Sequences, FiniteSets, Bags, TLC

VARIABLES
    problems,        \* table problems: a set of rows (id is the primary key)
    sessions,        \* table sessions: a set of rows (id is the primary key)
    messages,        \* table messages: rows grouped by createdAt, earliest
                     \* first; the rows of one createdAt in arrival order
    clockAtLast,     \* TRUE while the database clock still reads the
                     \* createdAt of the last group of messages
    analyses,        \* table analyses: rows in arrival order
    nextProblemId,   \* uuid defaultRandom(): a fresh id per inserted row
    nextSessionId,
    reqs,            \* server-function calls in progress (a bag)
    response,        \* what the call that has just finished returned or threw
    chatPc,          \* chat(): where the call stands
    completions,     \* chat(): what the chat-completion API answers in this call
    iterationCount,  \* chat(): let iterationCount
    currentMessages, \* chat(): const currentMessages
    message,         \* chat(): const message, the last completion received
    toolIndex,       \* chat(): position of the for loop in message.tool_calls
    requests,        \* chat(): chat-completion requests sent in this call
    chatResult,      \* chat(): the value the call returned
    webContainerInstance,  \* webcontainer-editor.tsx: module variable
    webContainerPromise,   \* webcontainer-editor.tsx: module variable
    boots,           \* the WebContainer.boot() calls made, each one's promise
    callers,         \* the components that call getWebContainer()
    showCreateModal,   \* dashboard: the create-session dialog is open
    evalSettings,      \* dashboard: the weights of evalSettings.dimensions
    useCustomSettings, \* dashboard: state useCustomSettings
    storedSettings,    \* the evaluationSettings of the sessions the dashboard
                       \* created, latest last
    hasLoadedFiles,  \* WebContainerEditor: the ref hasLoadedFiles.current
    effectRuns,      \* WebContainerEditor: the runs of the boot effect, each
                     \* with its closure (mounted, the props it saw)
    loads,           \* WebContainerEditor: loads into the container started
    tarPc,           \* extractTar(): where the call stands
    tarData,         \* extractTar(): the argument, block by block
    files,           \* extractTar(): const files
    offset,          \* extractTar(): let offset
    rootPrefix,      \* extractTar(): let rootPrefix
    builder,         \* the tree builder that has been called, if any
    treeFiles,       \* its argument
    tree             \* the FileSystemTree it returned

storeVars == <<problems, sessions, messages, clockAtLast, analyses,
               nextProblemId, nextSessionId, reqs, response>>

chatVars == <<chatPc, completions, iterationCount, currentMessages, message,
              toolIndex, requests, chatResult>>

containerVars == <<webContainerInstance, webContainerPromise, boots, callers>>

editorVars == <<hasLoadedFiles, effectRuns, loads>>

dashboardVars == <<showCreateModal, evalSettings, useCustomSettings,
                   storedSettings>>

tarVars == <<tarPc, tarData, files, offset, rootPrefix>>

treeVars == <<builder, treeFiles, tree>>

vars == <<storeVars, chatVars, containerVars, dashboardVars,
          editorVars,
          tarVars,
          treeVars>>

----------------------------------------------------------------------------
(* Bounds *)

MaxInFlight == 2       \* calls in progress at once
StoreProblems == 2     \* problems ever created, Spec
StoreSessions == 2     \* sessions ever created, Spec
StoreMessages == 2     \* rows of table messages, Spec
ChatProblems == 1      \* problems ever created, SpecSession
ChatSessions == 1      \* sessions ever created, SpecSession
ChatMessages == 4      \* rows of table messages, SpecSession
MaxToolCalls == 2      \* tool calls in one completion, SpecChat
NumCallers == 4        \* components calling getWebContainer, SpecContainer
MaxDimensions == 6     \* dimensions in the dialog, SpecDashboard
MaxCreated == 1        \* sessions created from the dialog, SpecDashboard
MaxEffectRuns == 4     \* runs of the boot effect of one editor, SpecEditor
MaxEntries == 3        \* entries of a well-formed archive, SpecTar
MaxBlocks == 3         \* blocks of any other archive, SpecTar
MaxFiles == 3          \* files given to a tree builder, SpecTree

Null == "null"
NoId == 0                      \* an id that no row ever had

Descriptions == {"", "desc"}   \* problems.description: text, possibly empty
Contents == {"q1"}             \* what a candidate submits
Replies == {"a1"}              \* what chat() / chatWithFiles() returns
AnalysisResults == {"r1", "r2"}\* a complete AnalysisResult from analyzeSession

ProblemIds == 1..(nextProblemId - 1)
SessionIds == 1..(nextSessionId - 1)

\* ids a client can know of: every id ever handed out, or one that never was
KnownProblemIds == ProblemIds \cup {NoId}
KnownSessionIds == SessionIds \cup {NoId}

----------------------------------------------------------------------------
(* Sequences *)

RECURSIVE Flatten(_)
Flatten(ss) == IF ss = <<>> THEN <<>> ELSE Head(ss) \o Flatten(Tail(ss))

Range(seq) == {seq[i] : i \in DOMAIN seq}

\* every order the rows of seq can be returned in
Orders(seq) ==
    {[i \in DOMAIN seq |-> seq[f[i]]] :
        f \in {g \in [DOMAIN seq -> DOMAIN seq] : Range(g) = DOMAIN seq}}

----------------------------------------------------------------------------
(* Schema: src/db/schema.ts *)

sessionStatusEnum == {"pending", "active", "completed"}
messageRoleEnum == {"user", "assistant"}

AllMessages == Flatten(messages)

SessionExists(id) == \E s \in sessions : s.id = id

\* sessions.problemId references problems.id
SessionFK(pid) == \E p \in problems : p.id = pid
\* messages.sessionId declared without references()
MessageFK_Undeclared(sid) == TRUE
\* messages.sessionId references sessions.id
MessageFK(sid) == \E s \in sessions : s.id = sid
\* analyses.sessionId references sessions.id
AnalysisFK(sid) == \E s \in sessions : s.id = sid
\* analyses.sessionId declared without unique()
AnalysisUnique_Undeclared(sid) == TRUE
\* analyses.sessionId is unique
AnalysisUnique(sid) == \A a \in Range(analyses) : a.sessionId # sid
\* a referenced row cannot be deleted (no ON DELETE action is declared)
SessionsDeletable(sids) ==
    /\ \A m \in Range(AllMessages) : m.sessionId \notin sids
    /\ \A a \in Range(analyses) : a.sessionId \notin sids
ProblemDeletable(pid) == \A s \in sessions : s.problemId # pid

----------------------------------------------------------------------------
(* Statements on table messages *)

\* insert into messages: createdAt defaults to now()
InsertMessage(row) ==
    IF clockAtLast /\ messages # <<>>
    THEN [messages EXCEPT ![Len(messages)] = Append(@, row)]
    ELSE Append(messages, <<row>>)

\* delete from messages, the where clause forgotten
DeleteMessages_All(sid) == <<>>
\* delete from messages where session_id = $1
DeleteMessages(sid) ==
    LET Other(m) == m.sessionId # sid
        Thin(g) == SelectSeq(g, Other)
        thinned == [i \in DOMAIN messages |-> Thin(messages[i])]
        NonEmpty(g) == g # <<>>
    IN  SelectSeq(thinned, NonEmpty)

\* the clock after a delete: when the last group is gone, no row is at "now"
ClockAfterDelete(sid) ==
    /\ clockAtLast
    /\ messages # <<>>
    /\ \E m \in Range(messages[Len(messages)]) : m.sessionId # sid

\* select from messages where session_id = $1 order by created_at:
\* rows of equal createdAt come in any order
RECURSIVE SelectMessages(_, _)
SelectMessages(groups, sid) ==
    IF groups = <<>> THEN {<<>>}
    ELSE LET Mine(m) == m.sessionId = sid
         IN  {h \o t : h \in Orders(SelectSeq(Head(groups), Mine)),
                       t \in SelectMessages(Tail(groups), sid)}

getMessages(sessionId) == SelectMessages(messages, sessionId)

----------------------------------------------------------------------------
(* Calls in progress *)

NewReq(fn, pc, id) ==
    [fn |-> fn, pc |-> pc, id |-> id, content |-> Null, reply |-> Null,
     result |-> Null, existing |-> FALSE, todo |-> {}]

Running == BagToSet(reqs)

CanCall == BagCardinality(reqs) < MaxInFlight

NoResponse == [fn |-> "none", id |-> NoId, outcome |-> "none", ret |-> Null]

\* the handler returns: ret is "row" when it returns a row, Null otherwise
Returned(fn, id, ret) == [fn |-> fn, id |-> id, outcome |-> "returned", ret |-> ret]

\* the handler throws
Thrown(fn, id) == [fn |-> fn, id |-> id, outcome |-> "thrown", ret |-> Null]

\* a call arrives and awaits its first statement's successor
Begin(r) == reqs' = reqs (+) SetToBag({r}) /\ response' = NoResponse

\* a call in progress moves on to its next await
Step(r, r2) ==
    /\ reqs' = (reqs (-) SetToBag({r})) (+) SetToBag({r2})
    /\ response' = NoResponse

\* a call in progress finishes
Finish(r, resp) == reqs' = reqs (-) SetToBag({r}) /\ response' = resp

\* a handler of one statement runs from arrival to response
Instant(resp) == reqs' = reqs /\ response' = resp

At(r, fn, pc) == r.fn = fn /\ r.pc = pc

----------------------------------------------------------------------------
\* chat(): the value of `message` before the first completion arrives
NoMessage == [content |-> Null, has_tool_calls |-> FALSE, tool_calls |-> <<>>,
              error |-> FALSE]

\* chat(): what the API answers when no call has been made
NoCompletions == [tool |-> NoMessage, turns |-> 0, final |-> NoMessage]

\* webcontainer-editor.tsx: `= null` of the two module variables
NoInstance == 0
NoPromise == 0

\* a component that has not called getWebContainer()
Idle == [pc |-> "idle", promise |-> NoPromise, value |-> NoInstance]

\* evaluation-config.ts: the weights of DEFAULT_EVALUATION_SETTINGS.dimensions
DEFAULT_EVALUATION_SETTINGS == <<25, 25, 20, 15, 15>>

Init ==
    /\ problems = {}
    /\ sessions = {}
    /\ messages = <<>>
    /\ clockAtLast = FALSE
    /\ analyses = <<>>
    /\ nextProblemId = 1
    /\ nextSessionId = 1
    /\ reqs = EmptyBag
    /\ response = NoResponse
    /\ chatPc = "idle"
    /\ completions = NoCompletions
    /\ iterationCount = 0
    /\ currentMessages = <<>>
    /\ message = NoMessage
    /\ toolIndex = 0
    /\ requests = 0
    /\ chatResult = Null
    /\ webContainerInstance = NoInstance
    /\ webContainerPromise = NoPromise
    /\ boots = <<>>
    /\ callers = [c \in 1..NumCallers |-> Idle]
    /\ showCreateModal = FALSE
    /\ evalSettings = DEFAULT_EVALUATION_SETTINGS
    /\ useCustomSettings = FALSE
    /\ storedSettings = <<>>
    /\ hasLoadedFiles = FALSE
    /\ effectRuns = <<>>
    /\ loads = 0
    /\ tarPc = "idle"
    /\ tarData = <<>>
    /\ files = <<>>
    /\ offset = 0
    /\ rootPrefix = <<>>
    /\ builder = "idle"
    /\ treeFiles = <<>>
    /\ tree = {}

\* time passes
Tick ==
    /\ clockAtLast
    /\ clockAtLast' = FALSE
    /\ response' = NoResponse
    /\ UNCHANGED <<problems, sessions, messages, analyses, nextProblemId,
                   nextSessionId, reqs>>

----------------------------------------------------------------------------
(* problems.ts *)

createProblem(description) ==
    /\ CanCall
    /\ problems' = problems \cup {[id |-> nextProblemId, description |-> description]}
    /\ nextProblemId' = nextProblemId + 1
    /\ Instant(Returned("createProblem", nextProblemId, "row"))
    /\ UNCHANGED <<sessions, messages, clockAtLast, analyses, nextSessionId>>

\* deleteProblem, statement 1: select the sessions that use the problem
deleteProblemSelect(id) ==
    /\ CanCall
    /\ id \in KnownProblemIds
    /\ Begin([NewReq("deleteProblem", "loop", id) EXCEPT
                !.todo = {s.id : s \in {t \in sessions : t.problemId = id}}])
    /\ UNCHANGED <<problems, sessions, messages, clockAtLast, analyses,
                   nextProblemId, nextSessionId>>

\* the session the for-loop is at
LoopSession(r) == CHOOSE sid \in r.todo : \A o \in r.todo : sid <= o

\* loop body, statement 1: delete the analyses of the session
deleteProblemAnalyses(r) ==
    /\ At(r, "deleteProblem", "loop")
    /\ r.todo # {}
    /\ LET Other(a) == a.sessionId # LoopSession(r)
       IN  analyses' = SelectSeq(analyses, Other)
    /\ Step(r, [r EXCEPT !.pc = "loopMessages"])
    /\ UNCHANGED <<problems, sessions, messages, clockAtLast, nextProblemId,
                   nextSessionId>>

\* loop body, statement 2: delete the messages of the session
deleteProblemMessages(r) ==
    /\ At(r, "deleteProblem", "loopMessages")
    /\ messages' = DeleteMessages(LoopSession(r))
    /\ clockAtLast' = ClockAfterDelete(LoopSession(r))
    /\ Step(r, [r EXCEPT !.pc = "loop", !.todo = r.todo \ {LoopSession(r)}])
    /\ UNCHANGED <<problems, sessions, analyses, nextProblemId, nextSessionId>>

\* delete from sessions, the where clause forgotten
DeleteSessionsOf_All(problemId) == {}
\* delete from sessions where problem_id = $1
DeleteSessionsOf(problemId) == {s \in sessions : s.problemId # problemId}

\* delete all sessions that reference the problem (one statement: all or none)
deleteProblemSessions(r) ==
    /\ At(r, "deleteProblem", "loop")
    /\ r.todo = {}
    /\ LET gone == {s.id : s \in {t \in sessions : t.problemId = r.id}}
       IN  IF SessionsDeletable(gone)
           THEN /\ sessions' = DeleteSessionsOf(r.id)
                /\ Step(r, [r EXCEPT !.pc = "problem"])
           ELSE /\ sessions' = sessions
                /\ Finish(r, Thrown("deleteProblem", r.id))
    /\ UNCHANGED <<problems, messages, clockAtLast, analyses, nextProblemId,
                   nextSessionId>>

\* finally, delete the problem
deleteProblemRow(r) ==
    /\ At(r, "deleteProblem", "problem")
    /\ IF ProblemDeletable(r.id)
       THEN /\ problems' = {p \in problems : p.id # r.id}
            /\ Finish(r, Returned("deleteProblem", r.id,
                          IF \E p \in problems : p.id = r.id THEN "row" ELSE Null))
       ELSE /\ problems' = problems
            /\ Finish(r, Thrown("deleteProblem", r.id))
    /\ UNCHANGED <<sessions, messages, clockAtLast, analyses, nextProblemId,
                   nextSessionId>>

----------------------------------------------------------------------------
(* sessions.ts *)

createSession(problemId) ==
    /\ CanCall
    /\ problemId \in KnownProblemIds
    /\ IF SessionFK(problemId)
       THEN /\ sessions' = sessions \cup
                   {[id |-> nextSessionId, problemId |-> problemId,
                     status |-> "pending", startedAt |-> Null,
                     completedAt |-> Null]}
            /\ nextSessionId' = nextSessionId + 1
            /\ Instant(Returned("createSession", nextSessionId, "row"))
       ELSE /\ UNCHANGED <<sessions, nextSessionId>>
            /\ Instant(Thrown("createSession", problemId))
    /\ UNCHANGED <<problems, messages, clockAtLast, analyses, nextProblemId>>

\* update sessions set status = $2, <field> = new Date() where id = $1
UpdateSession(id, status, field) ==
    {IF s.id = id THEN [s EXCEPT !.status = status, ![field] = "date"] ELSE s
       : s \in sessions}

startSession(id) ==
    /\ CanCall
    /\ id \in KnownSessionIds
    /\ sessions' = UpdateSession(id, "active", "startedAt")
    /\ Instant(Returned("startSession", id,
                IF SessionExists(id) THEN "row" ELSE Null))
    /\ UNCHANGED <<problems, messages, clockAtLast, analyses, nextProblemId,
                   nextSessionId>>

completeSession(id) ==
    /\ CanCall
    /\ id \in KnownSessionIds
    /\ sessions' = UpdateSession(id, "completed", "completedAt")
    /\ Instant(Returned("completeSession", id,
                IF SessionExists(id) THEN "row" ELSE Null))
    /\ UNCHANGED <<problems, messages, clockAtLast, analyses, nextProblemId,
                   nextSessionId>>

\* deleteSession, statement 1: delete the analysis of the session
deleteSessionAnalyses(id) ==
    /\ CanCall
    /\ id \in KnownSessionIds
    /\ LET Other(a) == a.sessionId # id
       IN  analyses' = SelectSeq(analyses, Other)
    /\ Begin(NewReq("deleteSession", "messages", id))
    /\ UNCHANGED <<problems, sessions, messages, clockAtLast, nextProblemId,
                   nextSessionId>>

\* statement 2: delete the messages of the session
deleteSessionMessages(r) ==
    /\ At(r, "deleteSession", "messages")
    /\ messages' = DeleteMessages(r.id)
    /\ clockAtLast' = ClockAfterDelete(r.id)
    /\ Step(r, [r EXCEPT !.pc = "session"])
    /\ UNCHANGED <<problems, sessions, analyses, nextProblemId, nextSessionId>>

\* statement 3: delete the session
deleteSessionRow(r) ==
    /\ At(r, "deleteSession", "session")
    /\ IF SessionsDeletable({r.id})
       THEN /\ sessions' = {s \in sessions : s.id # r.id}
            /\ Finish(r, Returned("deleteSession", r.id,
                          IF SessionExists(r.id) THEN "row" ELSE Null))
       ELSE /\ sessions' = sessions
            /\ Finish(r, Thrown("deleteSession", r.id))
    /\ UNCHANGED <<problems, messages, clockAtLast, analyses, nextProblemId,
                   nextSessionId>>

----------------------------------------------------------------------------
(* messages.ts *)

\* rows that calls in progress will still insert
ReservedMessages ==
    LET waiting == {r \in Running : r.fn = "sendMessage"
                                    /\ r.pc \in {"chat", "assistant"}}
        RECURSIVE Sum(_)
        Sum(S) == IF S = {} THEN 0
                  ELSE LET r == CHOOSE x \in S : TRUE
                       IN  CopiesIn(r, reqs) + Sum(S \ {r})
    IN  Sum(waiting)

\* sendMessage, statement 1: save the user message
sendMessageUser(sessionId, content) ==
    /\ CanCall
    /\ sessionId \in KnownSessionIds
    /\ IF MessageFK(sessionId)
       THEN /\ messages' = InsertMessage([sessionId |-> sessionId,
                               role |-> "user", content |-> content])
            /\ clockAtLast' = TRUE
            /\ Begin([NewReq("sendMessage", "chat", sessionId) EXCEPT
                        !.content = content])
       ELSE /\ UNCHANGED <<messages, clockAtLast>>
            /\ Instant(Thrown("sendMessage", sessionId))
    /\ UNCHANGED <<problems, sessions, analyses, nextProblemId, nextSessionId>>

\* the handler as a transaction that the exception rolls back
ChatThrows_RolledBack(r) ==
    /\ Finish(r, Thrown("sendMessage", r.id))
    /\ messages' = DeleteMessages(r.id)

\* lines 69-89: chat() / chatWithFiles() throws; the handler has no
\* try/catch, so the exception is the handler's and no statement follows
ChatThrows(r) ==
    /\ Finish(r, Thrown("sendMessage", r.id))
    /\ messages' = messages

\* the database clock while the model is awaited, had the answer taken no time
ClockAfterChat_Instant == clockAtLast

\* the database clock has moved on when the awaited model call ends
ClockAfterChat == FALSE

\* statements 2-4: read the context and await chat() / chatWithFiles();
\* the model answers after a while, or the call throws
sendMessageChat(r) ==
    /\ At(r, "sendMessage", "chat")
    /\ clockAtLast' = ClockAfterChat
    /\ \/ /\ \E reply \in Replies :
                Step(r, [r EXCEPT !.pc = "assistant", !.reply = reply])
          /\ messages' = messages
       \/ ChatThrows(r)
    /\ UNCHANGED <<problems, sessions, analyses, nextProblemId, nextSessionId>>

\* statement 5: save the AI response
sendMessageAssistant(r) ==
    /\ At(r, "sendMessage", "assistant")
    /\ IF MessageFK(r.id)
       THEN /\ messages' = InsertMessage([sessionId |-> r.id,
                               role |-> "assistant", content |-> r.reply])
            /\ clockAtLast' = TRUE
            /\ Finish(r, Returned("sendMessage", r.id, "row"))
       ELSE /\ UNCHANGED <<messages, clockAtLast>>
            /\ Finish(r, Thrown("sendMessage", r.id))
    /\ UNCHANGED <<problems, sessions, analyses, nextProblemId, nextSessionId>>

----------------------------------------------------------------------------
(* analysis.ts (server function) *)

\* the message of the Error that generateAnalysis throws at line 32
SessionOrProblemNotFound == "Session or problem not found"

\* lines 21-31: the test without the description, sessionResult[0] alone
ProblemDescribed_RowOnly(sessionId) == \E s \in sessions : s.id = sessionId

\* lines 21-31: sessionResult[0]?.problemDescription is truthy
ProblemDescribed(sessionId) ==
    \E s \in sessions : \E p \in problems :
        s.id = sessionId /\ p.id = s.problemId /\ p.description # ""

\* generateAnalysis, statement 1: the session with its problem's description
generateAnalysisSession(sessionId) ==
    /\ CanCall
    /\ sessionId \in KnownSessionIds
    /\ IF ProblemDescribed(sessionId)
       THEN Begin(NewReq("generateAnalysis", "analyze", sessionId))
       ELSE Instant([Thrown("generateAnalysis", sessionId)
                        EXCEPT !.ret = SessionOrProblemNotFound])
    /\ UNCHANGED <<problems, sessions, messages, clockAtLast, analyses,
                   nextProblemId, nextSessionId>>

\* statements 2-3: read the messages and await analyzeSession(); the result is
\* complete, or the call throws
generateAnalysisAnalyze(r) ==
    /\ At(r, "generateAnalysis", "analyze")
    /\ \/ \E result \in AnalysisResults :
             Step(r, [r EXCEPT !.pc = "existing", !.result = result])
       \/ Finish(r, Thrown("generateAnalysis", r.id))
    /\ UNCHANGED <<problems, sessions, messages, clockAtLast, analyses,
                   nextProblemId, nextSessionId>>

\* statement 4: check if an analysis already exists
generateAnalysisExisting(r) ==
    /\ At(r, "generateAnalysis", "existing")
    /\ Step(r, [r EXCEPT !.pc = "write",
                   !.existing = \E a \in Range(analyses) : a.sessionId = r.id])
    /\ UNCHANGED <<problems, sessions, messages, clockAtLast, analyses,
                   nextProblemId, nextSessionId>>

\* statement 5, existing: update analyses set ... where session_id = $1
generateAnalysisUpdate(r) ==
    /\ At(r, "generateAnalysis", "write")
    /\ r.existing
    /\ analyses' = [i \in DOMAIN analyses |->
                      IF analyses[i].sessionId = r.id
                      THEN [analyses[i] EXCEPT !.result = r.result]
                      ELSE analyses[i]]
    /\ Finish(r, Returned("generateAnalysis", r.id,
                   IF \E a \in Range(analyses) : a.sessionId = r.id
                   THEN "row" ELSE Null))
    /\ UNCHANGED <<problems, sessions, messages, clockAtLast, nextProblemId,
                   nextSessionId>>

\* statement 5, none: insert into analyses
generateAnalysisInsert(r) ==
    /\ At(r, "generateAnalysis", "write")
    /\ ~r.existing
    /\ IF AnalysisFK(r.id) /\ AnalysisUnique(r.id)
       THEN /\ analyses' = Append(analyses,
                              [sessionId |-> r.id, result |-> r.result])
            /\ Finish(r, Returned("generateAnalysis", r.id, "row"))
       ELSE /\ analyses' = analyses
            /\ Finish(r, Thrown("generateAnalysis", r.id))
    /\ UNCHANGED <<problems, sessions, messages, clockAtLast, nextProblemId,
                   nextSessionId>>

----------------------------------------------------------------------------
(* sessions.ts, problems.ts: the lookups.  `result[0] || null` is the set of
   the first row, empty for null. *)

\* sessions.ts line 57 without the where clause
WhereSessionId_Absent(id) == sessions

\* sessions.ts line 57: where(eq(sessions.id, data.id))
WhereSessionId(id) == {s \in sessions : s.id = id}

\* sessions.ts lines 29-60: the session left-joined with its problem
getSession(id) ==
    {[id |-> s.id, status |-> s.status, startedAt |-> s.startedAt,
      completedAt |-> s.completedAt,
      problem |-> {p \in problems : p.id = s.problemId}] : s \in WhereSessionId(id)}

\* problems.ts lines 10-15
getProblem(id) == {p \in problems : p.id = id}

----------------------------------------------------------------------------
(* lib/openai.ts: chat(messages, context, readFile) *)

maxIterations == 10

\* the two fixed strings chat() can return
NoReply == "Sorry, I couldn't generate a response."

GaveUp ==
    "Sorry, I encountered an issue while processing your request. Please try again."

\* JavaScript's `value || fallback` on a string or null
OrElse(value, fallback) == IF value \in {Null, ""} THEN fallback ELSE value

\* data.projectFiles of sendMessage: a file with content and an empty file
projectFiles == [p \in {"a.ts", "empty.ts"} |-> IF p = "a.ts" THEN "code" ELSE ""]

\* the readFile callback sendMessage hands to chat()
readFile(path) ==
    IF path \in DOMAIN projectFiles THEN OrElse(projectFiles[path], Null) ELSE Null

\* function.arguments as the model may write it: a path that has content, one
\* that is empty, one that is missing, no path, not an object, not JSON
Arguments ==
    {"{\"path\":\"a.ts\"}", "{\"path\":\"empty.ts\"}", "{\"path\":\"gone.ts\"}",
     "{}", "null", "{\"path\""}

\* JSON.parse(arguments) and the read of .path: `path` is the text that
\* args.path has as a property key and in a template string
JSONParse(text) ==
    CASE text = "{\"path\":\"a.ts\"}" -> [parsed |-> TRUE, object |-> TRUE, path |-> "a.ts"]
      [] text = "{\"path\":\"empty.ts\"}" -> [parsed |-> TRUE, object |-> TRUE, path |-> "empty.ts"]
      [] text = "{\"path\":\"gone.ts\"}" -> [parsed |-> TRUE, object |-> TRUE, path |-> "gone.ts"]
      [] text = "{}" -> [parsed |-> TRUE, object |-> TRUE, path |-> "undefined"]
      [] text = "null" -> [parsed |-> TRUE, object |-> FALSE, path |-> Null]
      [] OTHER -> [parsed |-> FALSE, object |-> FALSE, path |-> Null]

\* error.message of the SyntaxError of JSON.parse and of the TypeError of
\* reading .path of null
SyntaxErrorMessage == "Unexpected end of JSON input"

TypeErrorMessage == "Cannot read properties of null (reading 'path')"

\* the tool calls a completion can carry
ToolCallKinds ==
    {[type |-> "function", name |-> "read_file", arguments |-> a] : a \in Arguments}
    \cup {[type |-> "function", name |-> "search", arguments |-> "{}"],
          [type |-> "custom", name |-> "read_file", arguments |-> "{\"path\":\"a.ts\"}"]}

WithIds(calls) ==
    [i \in 1..Len(calls) |->
        [id |-> i, type |-> calls[i].type, name |-> calls[i].name,
         arguments |-> calls[i].arguments]]

ToolCallLists == UNION {[1..n -> ToolCallKinds] : n \in 1..MaxToolCalls}

\* response.choices[0].message with tool calls
ToolMessages ==
    {[content |-> c, has_tool_calls |-> TRUE, tool_calls |-> WithIds(l),
      error |-> FALSE] : c \in {Null, "text"}, l \in ToolCallLists}

\* openai.chat.completions.create() throws
APIError == [content |-> Null, has_tool_calls |-> FALSE, tool_calls |-> <<>>,
             error |-> TRUE]

\* response.choices[0].message without tool calls (tool_calls absent or
\* empty), or the request fails
FinalMessages ==
    {[content |-> c, has_tool_calls |-> h, tool_calls |-> <<>>, error |-> FALSE] :
        c \in {Null, "", "text"}, h \in BOOLEAN}
    \cup {APIError}

\* what the API answers in one call of chat(): `tool` to the first `turns`
\* requests, `final` to the next one
Completions == [tool : ToolMessages, turns : 0..maxIterations, final : FinalMessages]

Completion(n) ==
    IF n <= completions.turns THEN completions.tool ELSE completions.final

\* lines 142-152
chat ==
    /\ chatPc = "idle"
    /\ \E api \in Completions : completions' = api
    /\ currentMessages' = <<[role |-> "system", content |-> "systemPrompt"],
                            [role |-> "user", content |-> "q1"]>>
    /\ iterationCount' = 0
    /\ chatPc' = "while"
    /\ UNCHANGED <<message, toolIndex, requests, chatResult>>

\* the test of the while loop
LoopRuns_Inclusive == iterationCount <= maxIterations

LoopRuns == iterationCount < maxIterations

\* lines 154-164: the loop runs and sends a request
chatCreate ==
    /\ chatPc = "while"
    /\ LoopRuns
    /\ iterationCount' = iterationCount + 1
    /\ requests' = requests + 1
    /\ chatPc' = "create"
    /\ UNCHANGED <<completions, currentMessages, message, toolIndex, chatResult>>

\* line 203: the loop has ended
chatGiveUp ==
    /\ chatPc = "while"
    /\ ~LoopRuns
    /\ chatResult' = GaveUp
    /\ chatPc' = "returned"
    /\ UNCHANGED <<completions, iterationCount, currentMessages, message,
                   toolIndex, requests>>

\* line 157: the request throws, and so does chat()
chatFails ==
    /\ chatPc = "create"
    /\ Completion(requests).error
    /\ chatPc' = "thrown"
    /\ UNCHANGED <<completions, iterationCount, currentMessages, message,
                   toolIndex, requests, chatResult>>

\* line 169
NoToolCalls(m) == ~m.has_tool_calls \/ Len(m.tool_calls) = 0

\* lines 166-171: a completion without tool calls
chatAnswer ==
    /\ chatPc = "create"
    /\ ~Completion(requests).error
    /\ NoToolCalls(Completion(requests))
    /\ message' = Completion(requests)
    /\ chatResult' = OrElse(message'.content, NoReply)
    /\ chatPc' = "returned"
    /\ UNCHANGED <<completions, iterationCount, currentMessages, toolIndex,
                   requests>>

\* lines 166-178: a completion with tool calls
chatToolCalls ==
    /\ chatPc = "create"
    /\ ~Completion(requests).error
    /\ ~NoToolCalls(Completion(requests))
    /\ message' = Completion(requests)
    /\ currentMessages' =
           Append(currentMessages,
                  [role |-> "assistant", content |-> OrElse(message'.content, Null),
                   tool_calls |-> message'.tool_calls])
    /\ toolIndex' = 1
    /\ chatPc' = "for"
    /\ UNCHANGED <<completions, iterationCount, requests, chatResult>>

\* line 182
IsReadFile(toolCall) == toolCall.type = "function" /\ toolCall.name = "read_file"

\* lines 183-197: the content of the tool message
ToolContent(toolCall) ==
    LET args == JSONParse(toolCall.arguments)
    IN  IF ~args.parsed THEN "Error reading file: " \o SyntaxErrorMessage
        ELSE IF ~args.object THEN "Error reading file: " \o TypeErrorMessage
        ELSE OrElse(readFile(args.path), "File not found: " \o args.path)

\* lines 181-200: one round of the for loop
chatToolCall ==
    /\ chatPc = "for"
    /\ LET toolCall == message.tool_calls[toolIndex]
       IN  currentMessages' =
               IF IsReadFile(toolCall)
               THEN Append(currentMessages,
                           [role |-> "tool", tool_call_id |-> toolCall.id,
                            content |-> ToolContent(toolCall)])
               ELSE currentMessages
    /\ IF toolIndex < Len(message.tool_calls)
       THEN toolIndex' = toolIndex + 1 /\ chatPc' = "for"
       ELSE toolIndex' = 0 /\ chatPc' = "while"
    /\ UNCHANGED <<completions, iterationCount, message, requests, chatResult>>

----------------------------------------------------------------------------
(* components/webcontainer-editor.tsx: getWebContainer() and its callers *)

\* line 28
PromiseMade_Unchecked == FALSE

PromiseMade == webContainerPromise # NoPromise

\* lines 24-36, called at line 265: the promise a caller awaits is the value
\* the function returned, or the promise it returned
getWebContainer(c) ==
    /\ callers[c].pc = "idle"
    /\ IF webContainerInstance # NoInstance
       THEN /\ callers' = [callers EXCEPT ![c] =
                  [pc |-> "awaiting", promise |-> NoPromise,
                   value |-> webContainerInstance]]
            /\ UNCHANGED <<webContainerPromise, boots>>
       ELSE IF PromiseMade
       THEN /\ callers' = [callers EXCEPT ![c] =
                  [pc |-> "awaiting", promise |-> webContainerPromise,
                   value |-> NoInstance]]
            /\ UNCHANGED <<webContainerPromise, boots>>
       ELSE /\ boots' = Append(boots, "pending")
            /\ webContainerPromise' = Len(boots) + 1
            /\ callers' = [callers EXCEPT ![c] =
                  [pc |-> "awaiting", promise |-> Len(boots) + 1,
                   value |-> NoInstance]]
    /\ UNCHANGED webContainerInstance

\* lines 31-34: WebContainer.boot() resolves and the callback of then() runs;
\* the instance is named after the boot that made it
bootFulfilled(b) ==
    /\ boots[b] = "pending"
    /\ boots' = [boots EXCEPT ![b] = "fulfilled"]
    /\ webContainerInstance' = b
    /\ UNCHANGED <<webContainerPromise, callers>>

\* line 31: WebContainer.boot() rejects, and with it the promise of then()
bootRejected(b) ==
    /\ boots[b] = "pending"
    /\ boots' = [boots EXCEPT ![b] = "rejected"]
    /\ UNCHANGED <<webContainerInstance, webContainerPromise, callers>>

\* line 265: `await getWebContainer()` yields the instance
awaitReturns(c) ==
    /\ callers[c].pc = "awaiting"
    /\ \/ /\ callers[c].promise = NoPromise
          /\ callers' = [callers EXCEPT ![c].pc = "resolved"]
       \/ /\ callers[c].promise # NoPromise
          /\ boots[callers[c].promise] = "fulfilled"
          /\ callers' = [callers EXCEPT ![c].pc = "resolved",
                                        ![c].value = callers[c].promise]
    /\ UNCHANGED <<webContainerInstance, webContainerPromise, boots>>

\* lines 265 and 325: `await getWebContainer()` throws
awaitThrows(c) ==
    /\ callers[c].pc = "awaiting"
    /\ callers[c].promise # NoPromise
    /\ boots[callers[c].promise] = "rejected"
    /\ callers' = [callers EXCEPT ![c].pc = "rejected"]
    /\ UNCHANGED <<webContainerInstance, webContainerPromise, boots>>

\* lines 254-338: the component is mounted again and its effect will run
remount(c) ==
    /\ callers[c].pc \in {"resolved", "rejected"}
    /\ callers' = [callers EXCEPT ![c] = Idle]
    /\ UNCHANGED <<webContainerInstance, webContainerPromise, boots>>

----------------------------------------------------------------------------
(* routes/dashboard/index.tsx: the evaluation settings of the create dialog *)

\* the weight of the dimension that addDimension appends
NewDimensionWeight == 10

\* what `parseInt(e.target.value) || 0` yields for the texts typed into a
\* weight field: "", "50"
WeightInputs == {0, 50}

RECURSIVE totalWeight(_)
\* line 131
totalWeight(dimensions) ==
    IF dimensions = <<>> THEN 0
    ELSE Head(dimensions) + totalWeight(Tail(dimensions))

\* lines 183, 198: the button that opens the dialog
openCreateModal ==
    /\ ~showCreateModal
    /\ Len(storedSettings) < MaxCreated
    /\ showCreateModal' = TRUE
    /\ UNCHANGED <<evalSettings, useCustomSettings, storedSettings>>

\* lines 78-83: a weight, or a name or description (which leaves the weights)
updateDimension(index, field, value) ==
    /\ showCreateModal
    /\ index \in 1..Len(evalSettings)
    /\ evalSettings' = IF field = "weight"
                       THEN [evalSettings EXCEPT ![index] = value]
                       ELSE evalSettings
    /\ useCustomSettings' = TRUE
    /\ UNCHANGED <<showCreateModal, storedSettings>>

\* lines 85-89
removeDimension(index) ==
    /\ showCreateModal
    /\ index \in 1..Len(evalSettings)
    /\ evalSettings' = [i \in 1..(Len(evalSettings) - 1) |->
                          IF i < index THEN evalSettings[i] ELSE evalSettings[i + 1]]
    /\ useCustomSettings' = TRUE
    /\ UNCHANGED <<showCreateModal, storedSettings>>

\* lines 91-103
addDimension ==
    /\ showCreateModal
    /\ Len(evalSettings) < MaxDimensions
    /\ evalSettings' = Append(evalSettings, NewDimensionWeight)
    /\ useCustomSettings' = TRUE
    /\ UNCHANGED <<showCreateModal, storedSettings>>

\* lines 126-129
resetToDefaults ==
    /\ showCreateModal
    /\ useCustomSettings
    /\ evalSettings' = DEFAULT_EVALUATION_SETTINGS
    /\ useCustomSettings' = FALSE
    /\ UNCHANGED <<showCreateModal, storedSettings>>

\* lines 497-502: Cancel
cancelCreateModal ==
    /\ showCreateModal
    /\ showCreateModal' = FALSE
    /\ evalSettings' = DEFAULT_EVALUATION_SETTINGS
    /\ useCustomSettings' = FALSE
    /\ UNCHANGED storedSettings

\* lines 40-76, with createSession (sessions.ts 62-67) storing the value sent
handleCreateSession ==
    /\ showCreateModal
    /\ storedSettings' = Append(storedSettings,
                                [custom |-> useCustomSettings,
                                 dimensions |-> IF useCustomSettings
                                                THEN evalSettings ELSE <<>>])
    /\ showCreateModal' = FALSE
    /\ evalSettings' = DEFAULT_EVALUATION_SETTINGS
    /\ useCustomSettings' = FALSE

\* analysis.ts line 68: the settings an analysis of the session uses
SettingsUsed(stored) ==
    IF stored.custom THEN stored.dimensions ELSE DEFAULT_EVALUATION_SETTINGS

----------------------------------------------------------------------------
(* components/webcontainer-editor.tsx: the boot effect of one editor *)

\* what the props of a render give the effect to load
Sources == {"githubRepoUrl", "projectFiles", "none"}

\* line 257 without the test
AlreadyLoaded_Unchecked == FALSE

\* line 257: if (hasLoadedFiles.current) return
AlreadyLoaded == hasLoadedFiles

\* line 336: the cleanup of the run before sets its `mounted` to false
Cleanup(runs) == [i \in DOMAIN runs |-> [runs[i] EXCEPT !.mounted = FALSE]]

\* lines 255-265, 334-337: the effect runs (first mount, StrictMode's second
\* run, or onReady, projectFiles or githubRepoUrl changed identity) after the
\* cleanup of the run before, up to `await getWebContainer()`
bootEffect(source) ==
    /\ Len(effectRuns) < MaxEffectRuns
    /\ effectRuns' = Append(Cleanup(effectRuns),
                            [pc |-> IF AlreadyLoaded THEN "skipped" ELSE "awaitContainer",
                             mounted |-> TRUE, source |-> source])
    /\ UNCHANGED <<hasLoadedFiles, loads>>

\* lines 334-337: the editor is unmounted
unmountEditor ==
    /\ effectRuns # <<>>
    /\ effectRuns[Len(effectRuns)].mounted
    /\ effectRuns' = Cleanup(effectRuns)
    /\ UNCHANGED <<hasLoadedFiles, loads>>

\* lines 265-289: getWebContainer() has resolved; the run goes on to the load
bootLoads(k) ==
    /\ effectRuns[k].pc = "awaitContainer"
    /\ IF ~effectRuns[k].mounted
       THEN /\ effectRuns' = [effectRuns EXCEPT ![k].pc = "returned"]
            /\ UNCHANGED <<hasLoadedFiles, loads>>
       ELSE /\ hasLoadedFiles' = TRUE
            /\ loads' = IF effectRuns[k].source = "none" THEN loads ELSE loads + 1
            /\ effectRuns' = [effectRuns EXCEPT ![k].pc =
                                  IF effectRuns[k].source = "none"
                                  THEN "reading" ELSE "loading"]

\* lines 281-294: the load has finished
bootLoaded(k) ==
    /\ effectRuns[k].pc = "loading"
    /\ effectRuns' = [effectRuns EXCEPT ![k].pc = "reading"]
    /\ UNCHANGED <<hasLoadedFiles, loads>>

\* lines 292-320: the file tree and contents are read; the editor is ready
bootReady(k) ==
    /\ effectRuns[k].pc = "reading"
    /\ effectRuns' = [effectRuns EXCEPT ![k].pc = "ready"]
    /\ UNCHANGED <<hasLoadedFiles, loads>>

\* lines 321-331: an awaited call has thrown
bootCatches(k) ==
    /\ effectRuns[k].pc \in {"awaitContainer", "loading", "reading"}
    /\ effectRuns' = [effectRuns EXCEPT ![k].pc = "failed"]
    /\ UNCHANGED <<hasLoadedFiles, loads>>

----------------------------------------------------------------------------
(* lib/webcontainer-utils.ts: extractTar(tarData)

   The archive is a sequence of 512-byte blocks.  Of a block the model keeps
   what extractTar reads when it takes the block for a header: the bytes of
   the name field (0-99), the bytes of the size field (124-135), the type
   flag (byte 156) and whether any other byte is non-zero.  A field is the
   sequence of its characters up to the padding; "NUL" is a zero byte inside
   it.  Positions in the archive are byte positions, as in the code. *)

BlockSize == 512

Block(name, size, typeFlag, rest) ==
    [name |-> name, size |-> size, typeFlag |-> typeFlag, rest |-> rest]

ZeroBlock == Block(<<>>, <<>>, 0, "zero")

\* a block of file content; taken for a header its name field reads "x"
DataBlock == Block(<<"x">>, <<>>, 0, "data")

TypeDirectory == 53     \* '5'

\* index of the first c in chars, 0 when there is none
RECURSIVE IndexFrom(_, _, _)
IndexFrom(chars, c, i) ==
    IF i > Len(chars) THEN 0
    ELSE IF chars[i] = c THEN i
    ELSE IndexFrom(chars, c, i + 1)

IndexOf(chars, c) == IndexFrom(chars, c, 1)

\* lines 229-231, 235-236: the bytes up to the first zero byte, decoded
DecodeField(bytes) ==
    LET nullIndex == IndexOf(bytes, "NUL")
    IN  IF nullIndex = 0 THEN bytes ELSE SubSeq(bytes, 1, nullIndex - 1)

\* index of the first character from i on that is not a space
RECURSIVE TrimStart(_, _)
TrimStart(chars, i) ==
    IF i <= Len(chars) /\ chars[i] = " " THEN TrimStart(chars, i + 1) ELSE i

\* index of the last character up to i that is not a space
RECURSIVE TrimEnd(_, _)
TrimEnd(chars, i) ==
    IF i >= 1 /\ chars[i] = " " THEN TrimEnd(chars, i - 1) ELSE i

\* String.prototype.trim()
Trim(chars) == SubSeq(chars, TrimStart(chars, 1), TrimEnd(chars, Len(chars)))

Digits == <<"0", "1", "2", "3", "4", "5", "6", "7", "8", "9">>

\* the value of a digit character, -1 for any other character
DigitValue(c) == IndexOf(Digits, c) - 1

\* index after the digits of the radix that begin at i
RECURSIVE DigitsEnd(_, _, _)
DigitsEnd(chars, i, radix) ==
    IF i <= Len(chars) /\ DigitValue(chars[i]) >= 0
                      /\ DigitValue(chars[i]) < radix
    THEN DigitsEnd(chars, i + 1, radix)
    ELSE i

\* the number the digits chars[first..last] write in the radix
RECURSIVE DigitsValue(_, _, _, _)
DigitsValue(chars, first, last, radix) ==
    IF last < first THEN 0
    ELSE DigitsValue(chars, first, last - 1, radix) * radix
         + DigitValue(chars[last])

\* parseInt(string, radix): leading white space, an optional sign, then the
\* digits of the radix up to the first other character; NaN without a digit
parseInt(chars, radix) ==
    LET Parsed(text) ==
            LET start == TrimStart(text, 1)
                signed == start <= Len(text) /\ text[start] \in {"-", "+"}
                first == IF signed THEN start + 1 ELSE start
                end == DigitsEnd(text, first, radix)
                value == DigitsValue(text, first, end - 1, radix)
            IN  [nan |-> end = first,
                 value |-> IF signed /\ text[start] = "-"
                           THEN 0 - value ELSE value]
    IN  CHOOSE number \in {Parsed(text) : text \in {chars}} : TRUE

\* `number || 0`
OrZero(number) == IF number.nan THEN 0 ELSE number.value

\* Math.ceil(a / b) for b > 0
Ceil(a, b) == 0 - ((0 - a) \div b)

TarLength == Len(tarData) * BlockSize

\* Uint8Array.prototype.slice(start, end): the positions [from, to) it copies
RelativeIndex(i) ==
    IF i < 0 THEN (IF TarLength + i < 0 THEN 0 ELSE TarLength + i)
    ELSE IF i > TarLength THEN TarLength ELSE i

NoBytes == [from |-> 0, to |-> 0]

Slice(start, end) ==
    LET from == RelativeIndex(start)
        to == RelativeIndex(end)
    IN  IF from < to THEN [from |-> from, to |-> to] ELSE NoBytes

\* the block a slice of one block's length is, offsets being multiples of
\* BlockSize (line 243, 247-248); the empty slice reads as no byte at all
BlockOf(bytes) ==
    IF bytes = NoBytes THEN ZeroBlock ELSE tarData[(bytes.from \div BlockSize) + 1]

\* line 224: header.every(b => b === 0), true of the empty slice
EveryZero(bytes) == BlockOf(bytes) = ZeroBlock

Includes(chars, c) == IndexOf(chars, c) # 0

\* name.split("/")[0]
FirstPart(chars) ==
    IF Includes(chars, "/") THEN SubSeq(chars, 1, IndexOf(chars, "/") - 1)
    ELSE chars

StartsWith(chars, prefix) ==
    /\ Len(prefix) <= Len(chars)
    /\ SubSeq(chars, 1, Len(prefix)) = prefix

EndsWith(chars, suffix) ==
    /\ Len(suffix) <= Len(chars)
    /\ SubSeq(chars, Len(chars) - Len(suffix) + 1, Len(chars)) = suffix

\* line 264: relativePath.replace(/\/$/, "")
WithoutTrailingSlash(chars) ==
    IF EndsWith(chars, <<"/">>) THEN SubSeq(chars, 1, Len(chars) - 1) ELSE chars

\* lines 228-241: what the iteration reads from the header at the offset
HeaderAt(at) ==
    LET Header(block) ==
            LET name == DecodeField(block.name)
                size == OrZero(parseInt(Trim(DecodeField(block.size)), 8))
            IN  [name |-> name,
                 size |-> size,
                 isDirectory |-> \/ block.typeFlag = TypeDirectory
                                 \/ EndsWith(name, <<"/">>)]
    IN  CHOOSE header \in
            {Header(block) : block \in {BlockOf(Slice(at, at + BlockSize))}} :
            TRUE

\* lines 247-248
PaddedSize_Unpadded(size) == size

PaddedSize(size) == Ceil(size, BlockSize) * BlockSize

\* lines 254-256
RootPrefixAfter(name) ==
    IF rootPrefix = <<>> /\ Includes(name, "/")
    THEN FirstPart(name) \o <<"/">>
    ELSE rootPrefix

\* line 258
RelativePath(name, prefix) ==
    IF StartsWith(name, prefix)
    THEN SubSeq(name, Len(prefix) + 1, Len(name))
    ELSE name

\* line 261
Skipped(relativePath) ==
    relativePath \in {<<>>, <<"/">>, <<".", "/">>}

\* lines 214-217: the call
extractTar(data) ==
    /\ tarPc = "idle"
    /\ tarData' = data
    /\ files' = <<>>
    /\ offset' = 0
    /\ rootPrefix' = <<>>
    /\ tarPc' = "while"

\* line 219: the test of the loop holds
extractTarWhile ==
    /\ tarPc = "while"
    /\ offset < TarLength
    /\ tarPc' = "header"
    /\ UNCHANGED <<tarData, files, offset, rootPrefix>>

\* lines 219, 224-226, 270: the loop ends at the end of the data or at a
\* header of zero bytes, and the entries are returned
extractTarReturns ==
    /\ \/ tarPc = "while" /\ ~(offset < TarLength)
       \/ tarPc = "header" /\ EveryZero(Slice(offset, offset + BlockSize))
    /\ tarPc' = "returned"
    /\ UNCHANGED <<tarData, files, offset, rootPrefix>>

\* line 246
Content(header, at) ==
    IF header.size > 0
    THEN Slice(at + BlockSize, at + BlockSize + header.size)
    ELSE NoBytes

\* lines 251-267: the entries after the iteration on this header
FilesAfter(header, at) ==
    LET relativePath == RelativePath(header.name, RootPrefixAfter(header.name))
    IN  IF header.name = <<>> \/ Skipped(relativePath) THEN files
        ELSE Append(files, [path |-> WithoutTrailingSlash(relativePath),
                            content |-> Content(header, at),
                            isDirectory |-> header.isDirectory])

\* lines 221-268: one iteration that reads a header; without a name
\* (line 251) only the offset moves
extractTarHeader ==
    /\ tarPc = "header"
    /\ ~EveryZero(Slice(offset, offset + BlockSize))
    /\ \E header \in {HeaderAt(offset)} :
           /\ offset' = offset + BlockSize + PaddedSize(header.size)
           /\ rootPrefix' = RootPrefixAfter(header.name)
           /\ files' = FilesAfter(header, offset)
    /\ tarPc' = "while"
    /\ UNCHANGED tarData

\* the caller drops the result
extractTarDone ==
    /\ tarPc = "returned"
    /\ tarPc' = "idle"
    /\ tarData' = <<>>
    /\ files' = <<>>
    /\ offset' = 0
    /\ rootPrefix' = <<>>

\* Archives.  A well-formed archive is, per entry, a header block and the
\* blocks of its content, the last one padded, and then two zero blocks.
root == <<"r", "/">>    \* 'owner-repo-hash/'

Entry(name, typeFlag, bytes, size) ==
    [name |-> name, typeFlag |-> typeFlag, bytes |-> bytes, size |-> size]

TarEntries ==
    {Entry(root, TypeDirectory, 0, <<"0", "0", "0", "NUL">>),
     Entry(root \o <<"a">>, 0, 5, <<"0", "0", "5", "NUL">>),
     Entry(root \o <<"d", "/", "b">>, 0, 700, <<"1", "2", "7", "4", " ">>),
     Entry(root \o <<"r", "/", "a">>, 0, 0, <<"0">>),
     Entry(<<"p", "a", "x">>, 0, 52, <<"6", "4", "NUL", "7">>),
     Entry(<<>>, 0, 512, <<" ", "1", "0", "0", "0">>)}

EntryLists == UNION {[1..n -> TarEntries] : n \in 0..MaxEntries}

ContentBlocks(entry) == [i \in 1..Ceil(entry.bytes, BlockSize) |-> DataBlock]

EntryBlocks(entry) ==
    <<Block(entry.name, entry.size, entry.typeFlag, "header")>>
    \o ContentBlocks(entry)

Archive(entries) ==
    Flatten([i \in DOMAIN entries |-> EntryBlocks(entries[i])])
    \o <<ZeroBlock, ZeroBlock>>

\* Any blocks at all: size fields that are negative, not octal or larger than
\* the archive, names that answer no entry of a repository.  The negative
\* size is that of one block on a header without a name, which adds no
\* entry, so that `files` stays finite.
TarBlocks ==
    {ZeroBlock,
     DataBlock,
     Block(<<>>, <<"-", "1", "0", "0", "0">>, 0, "header"),
     Block(root, <<>>, TypeDirectory, "header"),
     Block(root \o <<"a">>, <<"1", "0", "0", "0">>, 0, "header"),
     Block(root \o <<"a", "/", "/">>, <<"9">>, 0, "header"),
     Block(root \o <<"b">>, <<"7", "7", "7", "7">>, 0, "header"),
     Block(<<"q", "/", "b">>, <<"1", "2", "x">>, 0, "header")}

BlockLists == UNION {[1..n -> TarBlocks] : n \in 0..MaxBlocks}

----------------------------------------------------------------------------
(* lib/webcontainer-utils.ts: projectFilesToFileSystemTree(files) and
   tarFilesToFileSystemTree(files)

   A FileSystemTree is nested objects; the model holds it as the set of its
   nodes, each with the names that lead to it from the root (`at`).  The
   object `current` of the code is the position of a directory. *)

\* path.split("/")
RECURSIVE Split(_)
Split(chars) ==
    IF ~Includes(chars, "/") THEN <<chars>>
    ELSE <<FirstPart(chars)>>
         \o Split(SubSeq(chars, IndexOf(chars, "/") + 1, Len(chars)))

\* .filter(Boolean)
NonEmpty(part) == part # <<>>

FileNode(at, contents) == [at |-> at, kind |-> "file", contents |-> contents]

DirectoryNode(at) == [at |-> at, kind |-> "directory", contents |-> <<>>]

\* current[part], the empty set when there is no such property
NodeAt(nodes, at) == {node \in nodes : node.at = at}

\* the position is that node or one below it
Under(at, position) ==
    /\ Len(at) <= Len(position)
    /\ SubSeq(position, 1, Len(at)) = at

\* current[part] = {...}: the node replaces what the property held
Assign(nodes, node) ==
    {other \in nodes : ~Under(node.at, other.at)} \cup {node}

\* if (!current[part]) current[part] = { directory: {} }
EnsureDirectory(nodes, at) ==
    IF NodeAt(nodes, at) = {} THEN Assign(nodes, DirectoryNode(at)) ELSE nodes

\* if ("directory" in node) current = node.directory
Descend(nodes, current, part) ==
    IF \E node \in NodeAt(nodes, Append(current, part)) :
           node.kind = "directory"
    THEN Append(current, part)
    ELSE current

\* lines 14-36: the loop over the parts of one ProjectFile, from part i on
RECURSIVE PlaceProjectFile(_, _, _, _, _)
PlaceProjectFile(nodes, current, parts, i, file) ==
    IF i > Len(parts) THEN nodes
    ELSE IF i = Len(parts)
    THEN Assign(nodes, FileNode(Append(current, parts[i]), file.content))
    ELSE LET made == EnsureDirectory(nodes, Append(current, parts[i]))
         IN  PlaceProjectFile(made, Descend(made, current, parts[i]),
                              parts, i + 1, file)

\* lines 7-41
RECURSIVE projectFilesToFileSystemTree(_)
projectFilesToFileSystemTree(list) ==
    IF list = <<>> THEN {}
    ELSE PlaceProjectFile(
             projectFilesToFileSystemTree(SubSeq(list, 1, Len(list) - 1)),
             <<>>, Split(list[Len(list)].path), 1, list[Len(list)])

\* String.prototype.localeCompare on paths of letters and '/': punctuation
\* collates before letters, a prefix before what it begins
Collation == <<"/", ".", "a", "b", "c">>

RECURSIVE Before(_, _)
Before(p, q) ==
    IF q = <<>> THEN FALSE
    ELSE IF p = <<>> THEN TRUE
    ELSE IF Head(p) = Head(q) THEN Before(Tail(p), Tail(q))
    ELSE IndexOf(Collation, Head(p)) < IndexOf(Collation, Head(q))

\* [...files].sort(...): a stable sort
RECURSIVE Insert(_, _)
Insert(sorted, file) ==
    IF sorted = <<>> THEN <<file>>
    ELSE IF Before(file.path, sorted[Len(sorted)].path)
    THEN Append(Insert(SubSeq(sorted, 1, Len(sorted) - 1), file),
                sorted[Len(sorted)])
    ELSE Append(sorted, file)

RECURSIVE Sorted(_)
Sorted(list) ==
    IF list = <<>> THEN <<>>
    ELSE Insert(Sorted(SubSeq(list, 1, Len(list) - 1)), list[Len(list)])

\* bytes that are not UTF-8: TextDecoder with fatal: true throws on them
Binary == <<"0xFF">>

\* lines 288-317: the loop over the parts of one TarFile, from part i on
RECURSIVE PlaceTarFile(_, _, _, _, _)
PlaceTarFile(nodes, current, parts, i, file) ==
    IF i > Len(parts) THEN nodes
    ELSE IF i = Len(parts)
    THEN IF file.isDirectory
         THEN EnsureDirectory(nodes, Append(current, parts[i]))
         ELSE IF file.content = Binary THEN nodes
         ELSE Assign(nodes, FileNode(Append(current, parts[i]), file.content))
    ELSE LET made == EnsureDirectory(nodes, Append(current, parts[i]))
         IN  PlaceTarFile(made, Descend(made, current, parts[i]),
                          parts, i + 1, file)

\* lines 283-318: the loop over the sorted files
RECURSIVE PlaceTarFiles(_)
PlaceTarFiles(sortedFiles) ==
    IF sortedFiles = <<>> THEN {}
    ELSE PlaceTarFile(
             PlaceTarFiles(SubSeq(sortedFiles, 1, Len(sortedFiles) - 1)),
             <<>>,
             SelectSeq(Split(sortedFiles[Len(sortedFiles)].path), NonEmpty),
             1, sortedFiles[Len(sortedFiles)])

\* lines 276-322
tarFilesToFileSystemTree(list) == PlaceTarFiles(Sorted(list))

\* Inputs: lists of files with distinct paths, in every order
Paths == {<<"a">>, <<"a", "/", "b">>, <<"a", "/", "c">>, <<"b">>}

Texts == {<<"x">>, <<"y">>}

DistinctPaths(list) ==
    \A i, j \in DOMAIN list : list[i].path = list[j].path => i = j

ProjectFileRows == [path : Paths, content : Texts]

ProjectFileLists ==
    {list \in UNION {[1..n -> ProjectFileRows] : n \in 0..MaxFiles} :
        DistinctPaths(list)}

TarFiles ==
    [path : Paths, content : Texts \cup {Binary}, isDirectory : {FALSE}]
    \cup [path : Paths, content : {<<>>}, isDirectory : {TRUE}]

TarFileLists ==
    {list \in UNION {[1..n -> TarFiles] : n \in 0..MaxFiles} :
        DistinctPaths(list)}

\* the calls: the editor's boot effect (webcontainer-editor.tsx 287) and
\* loadGitHubRepoViaTarball (line 198)
callProjectFilesToFileSystemTree(list) ==
    /\ builder = "idle"
    /\ builder' = "projectFiles"
    /\ treeFiles' = list
    /\ tree' = projectFilesToFileSystemTree(list)

callTarFilesToFileSystemTree(list) ==
    /\ builder = "idle"
    /\ builder' = "tarFiles"
    /\ treeFiles' = list
    /\ tree' = tarFilesToFileSystemTree(list)

\* the tree is mounted and dropped
mountTree ==
    /\ builder # "idle"
    /\ builder' = "idle"
    /\ treeFiles' = <<>>
    /\ tree' = {}

----------------------------------------------------------------------------
\* createProblem and createSession, for at most maxP problems and maxS sessions
Creates(maxP, maxS, descriptions) ==
    \/ \E d \in descriptions : nextProblemId <= maxP /\ createProblem(d)
    \/ \E id \in 0..maxP : nextSessionId <= maxS /\ createSession(id)

\* deleteProblem and deleteSession, statement by statement
Deletes(maxP, maxS) ==
    \/ \E id \in 0..maxP : deleteProblemSelect(id)
    \/ \E r \in Running : deleteProblemAnalyses(r)
    \/ \E r \in Running : deleteProblemMessages(r)
    \/ \E r \in Running : deleteProblemSessions(r)
    \/ \E r \in Running : deleteProblemRow(r)
    \/ \E id \in 0..maxS : deleteSessionAnalyses(id)
    \/ \E r \in Running : deleteSessionMessages(r)
    \/ \E r \in Running : deleteSessionRow(r)

\* startSession and completeSession
Lifecycle(maxS) ==
    \/ \E id \in 0..maxS : startSession(id)
    \/ \E id \in 0..maxS : completeSession(id)

\* sendMessage, statement by statement, for at most maxM rows, and the clock
\* its rows are stamped by
Chats(maxS, maxM) ==
    \/ Tick
    \/ \E id \in 0..maxS, content \in Contents :
           /\ Len(AllMessages) + ReservedMessages + 2 <= maxM
           /\ sendMessageUser(id, content)
    \/ \E r \in Running : sendMessageChat(r)
    \/ \E r \in Running : sendMessageAssistant(r)

\* generateAnalysis, statement by statement
Analyses(maxS) ==
    \/ \E id \in 0..maxS : generateAnalysisSession(id)
    \/ \E r \in Running : generateAnalysisAnalyze(r)
    \/ \E r \in Running : generateAnalysisExisting(r)
    \/ \E r \in Running : generateAnalysisUpdate(r)
    \/ \E r \in Running : generateAnalysisInsert(r)

\* the rows and their references: every call that inserts or deletes rows,
\* with sessions left in the status they are created in
Next ==
    /\ \/ Creates(StoreProblems, StoreSessions, {"desc"})
       \/ Deletes(StoreProblems, StoreSessions)
       \/ Chats(StoreSessions, StoreMessages)
       \/ Analyses(StoreSessions)
    /\ UNCHANGED <<chatVars, containerVars, dashboardVars, editorVars, tarVars, treeVars>>

Spec == Init /\ [][Next]_vars

\* the life of one session: every call except the deletions
NextSession ==
    /\ \/ Creates(ChatProblems, ChatSessions, Descriptions)
       \/ Lifecycle(ChatSessions)
       \/ Chats(ChatSessions, ChatMessages)
       \/ Analyses(ChatSessions)
    /\ UNCHANGED <<chatVars, containerVars, dashboardVars, editorVars, tarVars, treeVars>>

SpecSession == Init /\ [][NextSession]_vars

\* one call of chat(), against every behaviour of the API; the event loop
\* runs a continuation that is ready
NextChat ==
    /\ \/ chat
       \/ chatCreate
       \/ chatGiveUp
       \/ chatFails
       \/ chatAnswer
       \/ chatToolCalls
       \/ chatToolCall
    /\ UNCHANGED <<storeVars, containerVars, dashboardVars, editorVars, tarVars, treeVars>>

SpecChat == Init /\ [][NextChat]_vars /\ WF_vars(NextChat)

\* the components of one page and the one WebContainer.boot() they share
NextContainer ==
    /\ \/ \E c \in 1..NumCallers : getWebContainer(c)
       \/ \E b \in 1..Len(boots) : bootFulfilled(b)
       \/ \E b \in 1..Len(boots) : bootRejected(b)
       \/ \E c \in 1..NumCallers : awaitReturns(c)
       \/ \E c \in 1..NumCallers : awaitThrows(c)
       \/ \E c \in 1..NumCallers : remount(c)
    /\ UNCHANGED <<storeVars, chatVars, dashboardVars, editorVars, tarVars, treeVars>>

SpecContainer == Init /\ [][NextContainer]_vars

\* the create dialog of the dashboard and the settings it sends
NextDashboard ==
    /\ \/ openCreateModal
       \/ \E i \in 1..MaxDimensions, f \in {"name", "weight"}, w \in WeightInputs :
             updateDimension(i, f, w)
       \/ \E i \in 1..MaxDimensions : removeDimension(i)
       \/ addDimension
       \/ resetToDefaults
       \/ cancelCreateModal
       \/ handleCreateSession
    /\ UNCHANGED <<storeVars, chatVars, containerVars, editorVars, tarVars, treeVars>>

SpecDashboard == Init /\ [][NextDashboard]_vars

\* one mounted WebContainerEditor and the runs of its boot effect
NextEditor ==
    /\ \/ \E source \in Sources : bootEffect(source)
       \/ unmountEditor
       \/ \E k \in 1..Len(effectRuns) : bootLoads(k)
       \/ \E k \in 1..Len(effectRuns) : bootLoaded(k)
       \/ \E k \in 1..Len(effectRuns) : bootReady(k)
       \/ \E k \in 1..Len(effectRuns) : bootCatches(k)
    /\ UNCHANGED <<storeVars, chatVars, containerVars, dashboardVars, tarVars, treeVars>>

SpecEditor == Init /\ [][NextEditor]_vars

\* one call of extractTar after the other, on any archive
NextTar ==
    /\ \/ tarPc = "idle" /\ \E entries \in EntryLists : extractTar(Archive(entries))
       \/ tarPc = "idle" /\ \E data \in BlockLists : extractTar(data)
       \/ extractTarWhile
       \/ extractTarHeader
       \/ extractTarReturns
       \/ extractTarDone
    /\ UNCHANGED <<storeVars, chatVars, containerVars, dashboardVars,
                   editorVars, treeVars>>

\* extractTar is synchronous: a call that has begun runs on
extractTarRuns ==
    /\ extractTarWhile \/ extractTarHeader \/ extractTarReturns
    /\ UNCHANGED <<storeVars, chatVars, containerVars, dashboardVars,
                   editorVars, treeVars>>

SpecTar == Init /\ [][NextTar]_vars /\ WF_vars(extractTarRuns)

\* the two tree builders, each on every list of files
NextTree ==
    /\ \/ builder = "idle"
          /\ \E list \in ProjectFileLists : callProjectFilesToFileSystemTree(list)
       \/ builder = "idle"
          /\ \E list \in TarFileLists : callTarFilesToFileSystemTree(list)
       \/ mountTree
    /\ UNCHANGED <<storeVars, chatVars, containerVars, dashboardVars,
                   editorVars, tarVars>>

SpecTree == Init /\ [][NextTree]_vars

----------------------------------------------------------------------------
(* Properties of the store *)

\* the rows of a session, in arrival order
RowsOf(groups, sid) ==
    LET Mine(m) == m.sessionId = sid
    IN  SelectSeq(Flatten(groups), Mine)

AnalysesOf(rows, sid) ==
    LET Mine(a) == a.sessionId = sid
    IN  SelectSeq(rows, Mine)

\* the call whose statement this step runs: the record that left or joined reqs
Stepping(r) == CopiesIn(r, reqs) # CopiesIn(r, reqs')

Leaving(r) == CopiesIn(r, reqs') < CopiesIn(r, reqs)

Joining(r) == CopiesIn(r, reqs') > CopiesIn(r, reqs)

StepOf(fn, id) ==
    \/ \E r \in BagToSet(reqs) \cup BagToSet(reqs') :
          r.fn = fn /\ r.id = id /\ Stepping(r)
    \/ response'.fn = fn /\ response'.id = id

\* rows of sessions other than those in sids are as they were
OthersUnchanged(sids) ==
    /\ \A sid \in 0..StoreSessions : sid \notin sids =>
          /\ RowsOf(messages', sid) = RowsOf(messages, sid)
          /\ AnalysesOf(analyses', sid) = AnalysesOf(analyses, sid)
    /\ \A s \in sessions : s.id \notin sids => s \in sessions'
    /\ \A s \in sessions' : s \in sessions

\* session_status in its declared order: a status stays or moves one step on
StatusAdvances(old, new) ==
    \/ new = old
    \/ old = "pending" /\ new = "active"
    \/ old = "active" /\ new = "completed"

\* C1: the status of a session only ever changes pending -> active and
\* active -> completed
C1_StatusOnlyAdvances ==
    [][\A s \in sessions : \A t \in sessions' :
          s.id = t.id => StatusAdvances(s.status, t.status)]_vars

\* what a step of deleteSession(id) may change, and what is gone when it returns
DeleteSessionStep(id) ==
    /\ OthersUnchanged({id})
    /\ problems' = problems
    /\ (SessionExists(id) /\ ~SessionExists(id)') =>
          /\ RowsOf(messages, id) = <<>>
          /\ AnalysesOf(analyses, id) = <<>>
    /\ (response'.fn = "deleteSession" /\ response'.outcome = "returned") =>
          /\ ~SessionExists(id)'
          /\ RowsOf(messages', id) = <<>>
          /\ AnalysesOf(analyses', id) = <<>>

\* C2: when deleteSession(id) returns, the session, its messages and its
\* analysis are gone, the session row went only after its dependents, and no
\* statement of the call touches a row of another session
C2_DeleteSessionCascade ==
    [][\A id \in 0..StoreSessions :
          StepOf("deleteSession", id) => DeleteSessionStep(id)]_vars

\* a deleteSession that returned the deleted row: the session had a user
\* message (its sendMessage is still awaiting the model) and the other session
\* keeps its analysis
C2_Witness ==
    /\ response.fn = "deleteSession" /\ response.outcome = "returned"
    /\ response.ret = "row"
    /\ \E r \in Running : r.fn = "sendMessage" /\ r.id = response.id
    /\ \E sid \in SessionIds : sid # response.id /\ AnalysesOf(analyses, sid) # <<>>

\* the ids of the sessions of a problem
SessionsOfProblem(rows, pid) == {s.id : s \in {t \in rows : t.problemId = pid}}

DeleteProblemStep(id) ==
    /\ \A p \in problems : p.id # id => p \in problems'
    /\ \A p \in problems' : p \in problems
    /\ \E own \in SUBSET (0..StoreSessions) :
          /\ \A sid \in own : \A s \in sessions : s.id = sid => s.problemId = id
          /\ OthersUnchanged(own)
    /\ \A s \in sessions : s \notin sessions' =>
          /\ RowsOf(messages, s.id) = <<>>
          /\ AnalysesOf(analyses, s.id) = <<>>
    /\ problems' # problems => SessionsOfProblem(sessions, id) = {}
    /\ (response'.fn = "deleteProblem" /\ response'.outcome = "returned") =>
          /\ \A p \in problems' : p.id # id
          /\ SessionsOfProblem(sessions', id) = {}
          /\ \A m \in Range(Flatten(messages')) : m.sessionId \in {s.id : s \in sessions'}
          /\ \A a \in Range(analyses') : a.sessionId \in {s.id : s \in sessions'}

\* C3: when deleteProblem(id) returns, the problem, its sessions and their
\* messages and analyses are gone; sessions go only after their dependents and
\* the problem only after its sessions; nothing of another problem is touched
C3_DeleteProblemCascade ==
    [][\A id \in 0..StoreProblems :
          StepOf("deleteProblem", id) => DeleteProblemStep(id)]_vars

\* a deleteProblem that returned the deleted row after deleting a session of
\* the problem, while a session of the other problem keeps its message
C3_Witness ==
    /\ response.fn = "deleteProblem" /\ response.outcome = "returned"
    /\ response.ret = "row"
    /\ \E sid \in SessionIds : ~SessionExists(sid)
    /\ \E s \in sessions : RowsOf(messages, s.id) # <<>>

\* the three references of schema.ts hold
ReferentialIntegrity ==
    /\ \A m \in Range(AllMessages) : SessionExists(m.sessionId)
    /\ \A a \in Range(analyses) : SessionExists(a.sessionId)
    /\ \A s \in sessions : \E p \in problems : p.id = s.problemId

\* sendMessage runs an insert: statement 1, on arrival, or statement 5
SendMessageInserts(sid) ==
    /\ response'.fn = "sendMessage" /\ response'.id = sid
    /\ \/ reqs' = reqs
       \/ \E r \in Running : At(r, "sendMessage", "assistant") /\ Stepping(r)

WithoutRow ==
    /\ \A sid \in 0..StoreSessions : ~SessionExists(sid) =>
          /\ StepOf("sendMessage", sid) => messages' = messages
          /\ StepOf("generateAnalysis", sid) => analyses' = analyses
          /\ SendMessageInserts(sid) => response'.outcome = "thrown"
    /\ response'.fn = "createSession" =>
          IF response'.outcome = "thrown"
          THEN /\ sessions' = sessions
               /\ \A p \in problems : p.id # response'.id
          ELSE \E s \in sessions' \ sessions :
                  /\ s.id = response'.id
                  /\ \E p \in problems : p.id = s.problemId

\* C4: each message and each analysis references an existing session and each
\* session an existing problem; sendMessage or createSession with an id that
\* has no row throws and inserts nothing
C4_ReferencesHold ==
    /\ []ReferentialIntegrity
    /\ [][WithoutRow]_vars

\* a sendMessage for a session that was deleted has thrown, and the other
\* session keeps its analysis
C4_Witness ==
    /\ response.fn = "sendMessage" /\ response.outcome = "thrown"
    /\ response.id \in SessionIds /\ ~SessionExists(response.id)
    /\ analyses # <<>>

\* no session has two analysis rows
AtMostOneAnalysis ==
    \A sid \in 0..StoreSessions : Len(AnalysesOf(analyses, sid)) <= 1

GenerateAnalysisWrites(r) ==
    (At(r, "generateAnalysis", "write") /\ Stepping(r)
        /\ response'.outcome = "returned")
    => IF r.existing
       THEN /\ Len(analyses') = Len(analyses)
            /\ \A i \in DOMAIN analyses :
                  analyses'[i] = IF analyses[i].sessionId = r.id
                                 THEN [sessionId |-> r.id, result |-> r.result]
                                 ELSE analyses[i]
       ELSE /\ AnalysesOf(analyses, r.id) = <<>>
            /\ analyses' = Append(analyses, [sessionId |-> r.id, result |-> r.result])

----------------------------------------------------------------------------
(* Properties of chat() *)

ChatDone == chatPc \in {"returned", "thrown"}

\* chat() throws only because a request threw
ThrowsWithRequest == chatPc = "thrown" => Completion(requests).error

\* C6, as stated: chat() sends at most 10 requests; it returns the model's
\* text at the first response without tool calls, the fixed string if the
\* 10th response still asks for tools; a call ends once its requests do
C6_ChatReturnsModelText ==
    /\ [](requests <= 10)
    /\ [](chatPc = "returned" =>
             chatResult = IF completions.turns < 10
                          THEN completions.final.content ELSE GaveUp)
    /\ []ThrowsWithRequest
    /\ (chatPc # "idle") ~> ChatDone

\* C6, amended: chat() sends at most 10 requests; at the first response
\* without tool calls it returns the model's text, or "Sorry, I couldn't
\* generate a response." if that text is missing or empty; it returns the
\* fixed string if the 10th response still asks for tools; a call ends once
\* its requests do
C6_ChatReturns ==
    /\ [](requests <= 10)
    /\ [](chatPc = "returned" =>
             chatResult = IF completions.turns < 10
                          THEN OrElse(completions.final.content, NoReply)
                          ELSE GaveUp)
    /\ []ThrowsWithRequest
    /\ (chatPc # "idle") ~> ChatDone

\* the 10th response is the first without tool calls, and has no text
C6_Witness ==
    /\ chatPc = "returned"
    /\ requests = 10
    /\ completions.final.content = ""
    /\ chatResult = NoReply

\* the position of the first assistant message after position i, or the
\* position after the last message
NextAssistant(i) ==
    LET later == {j \in DOMAIN currentMessages :
                     j > i /\ currentMessages[j].role = "assistant"}
    IN  IF later = {} THEN Len(currentMessages) + 1
        ELSE CHOOSE j \in later : \A k \in later : j <= k

\* the tool messages that answer the tool call `id` of the assistant message
\* at position i
AnswersTo(i, id) ==
    {j \in (i + 1)..(NextAssistant(i) - 1) :
        /\ currentMessages[j].role = "tool"
        /\ currentMessages[j].tool_call_id = id}

\* C19: when chat() sends a completion request, every tool call of every
\* assistant message in the conversation has been answered by exactly one
\* tool message with its tool_call_id, whatever its type or function name.
C19_EveryToolCallAnswered ==
    chatPc = "create"
    => \A i \in DOMAIN currentMessages :
           currentMessages[i].role = "assistant"
           => \A k \in DOMAIN currentMessages[i].tool_calls :
                  Cardinality(AnswersTo(i, currentMessages[i].tool_calls[k].id)) = 1

\* the assistant message a tool message at position j answers
AssistantBefore(j) ==
    CHOOSE i \in 1..(j - 1) :
        /\ currentMessages[i].role = "assistant"
        /\ \A k \in (i + 1)..(j - 1) : currentMessages[k].role # "assistant"

\* the tool call a tool message at position j answers
ToolCallOf(j) ==
    LET calls == currentMessages[AssistantBefore(j)].tool_calls
    IN  calls[CHOOSE k \in DOMAIN calls :
                  calls[k].id = currentMessages[j].tool_call_id]

\* what the answer to a read_file call is to be: the content of the file if
\* the path is a key of projectFiles, 'File not found' if it is not, an
\* error message if the arguments cannot be read
FileOrNotFound(toolCall, content) ==
    LET args == JSONParse(toolCall.arguments)
    IN  IF ~args.parsed \/ ~args.object
        THEN content \in {"Error reading file: " \o SyntaxErrorMessage,
                          "Error reading file: " \o TypeErrorMessage}
        ELSE IF args.path \in DOMAIN projectFiles
        THEN content = projectFiles[args.path]
        ELSE content = "File not found: " \o args.path

\* C20: the tool message of a read_file call carries the content of
\* projectFiles[path] when path is a key of projectFiles, 'File not found:
\* <path>' when it is not, 'Error reading file: ...' when reading the
\* arguments or the file throws; a failing tool call never makes chat() throw.
C20_ToolMessageContent ==
    /\ \A j \in DOMAIN currentMessages :
           currentMessages[j].role = "tool"
           => FileOrNotFound(ToolCallOf(j), currentMessages[j].content)
    /\ ThrowsWithRequest

----------------------------------------------------------------------------
(* Properties of the life of a session *)

\* C7: once completeSession has succeeded for a session (completedAt is set by
\* nothing else and never cleared), no message is added to it
C7_NoMessageAfterComplete ==
    [][\A s \in sessions : s.completedAt # Null =>
          Len(RowsOf(messages', s.id)) <= Len(RowsOf(messages, s.id))]_vars

\* C8: every analysis row belongs to a session whose status is completed, and
\* generateAnalysis writes an analysis only for a completed session
C8_AnalysisOnlyForCompleted ==
    /\ [](\A a \in Range(analyses) :
            \A s \in sessions : s.id = a.sessionId => s.status = "completed")
    /\ [][\A sid \in 0..ChatSessions :
             AnalysesOf(analyses', sid) # AnalysesOf(analyses, sid) =>
                \E s \in sessions : s.id = sid /\ s.status = "completed"]_vars

\* a sendMessage that succeeds has added the user message with the submitted
\* content and then the assistant message with the reply
SendMessageAdds(sid) ==
    /\ \A r \in Running :
          (r.fn = "sendMessage" /\ r.id = sid /\ Leaving(r)) =>
             IF response'.outcome = "returned"
             THEN RowsOf(messages', sid) = Append(RowsOf(messages, sid),
                     [sessionId |-> sid, role |-> "assistant", content |-> r.reply])
             ELSE messages' = messages
    /\ \A r \in BagToSet(reqs') :
          (At(r, "sendMessage", "chat") /\ r.id = sid /\ Joining(r)) =>
             RowsOf(messages', sid) = Append(RowsOf(messages, sid),
                     [sessionId |-> sid, role |-> "user", content |-> r.content])

C10_SendMessageAddsTwo ==
    [][\A sid \in 0..ChatSessions : SendMessageAdds(sid)]_vars

C10_InsertionOrder ==
    \A sid \in 0..ChatSessions :
        getMessages(sid) = {RowsOf(messages, sid)}

\* C10: a sendMessage that succeeds adds exactly two messages to its session,
\* the user message and then the assistant message, and getMessages returns
\* the messages of a session in the order they were inserted
C10_TwoMessagesInOrder ==
    /\ C10_SendMessageAddsTwo
    /\ []C10_InsertionOrder

----------------------------------------------------------------------------
(* Properties of generateAnalysis's first test *)

\* the session has no row, or its problem has an empty description
NothingToAnalyze(sid) ==
    \A s \in sessions : s.id = sid =>
        \A p \in problems : p.id = s.problemId => p.description = ""

\* C11: generateAnalysis for a session id that has no row, or whose problem
\* has no description, throws 'Session or problem not found', never reaches
\* the call of the model, and leaves table analyses as it was
C11_NotFoundBeforeModelCall ==
    [][\A sid \in 0..ChatSessions : NothingToAnalyze(sid) =>
          /\ \A r \in BagToSet(reqs') :
                ~(r.fn = "generateAnalysis" /\ r.id = sid /\ Joining(r))
          /\ (response'.fn = "generateAnalysis" /\ response'.id = sid) =>
                /\ response'.outcome = "thrown"
                /\ response'.ret = SessionOrProblemNotFound
                /\ reqs' = reqs
                /\ analyses' = analyses]_vars

\* the call has thrown for a session that has a row and whose problem has an
\* empty description
C11_Witness ==
    /\ response.fn = "generateAnalysis"
    /\ response.ret = SessionOrProblemNotFound
    /\ SessionExists(response.id)

----------------------------------------------------------------------------
(* Properties of the lookups *)

----------------------------------------------------------------------------
(* Properties of the evaluation settings *)

\* C12: the dimension weights of the settings used for any session sum to
\* 100, for the default settings and for every value the dialog has stored
C12_WeightsSumTo100 ==
    /\ totalWeight(DEFAULT_EVALUATION_SETTINGS) = 100
    /\ \A i \in 1..Len(storedSettings) :
          totalWeight(SettingsUsed(storedSettings[i])) = 100

----------------------------------------------------------------------------
(* Properties of the boot effect *)

\* C14: one mounted WebContainerEditor starts at most one load of project
\* files or of the GitHub tarball, however often its boot effect runs
C14_LoadsOnce == loads <= 1

\* the second run of the effect has loaded, the first returned unmounted, and
\* a third run, made while the load was in progress, was skipped
C14_Witness ==
    /\ loads = 1
    /\ Len(effectRuns) >= 3
    /\ effectRuns[1].pc = "returned"
    /\ effectRuns[2].pc \in {"loading", "reading", "ready"}
    /\ effectRuns[3].pc = "skipped"

----------------------------------------------------------------------------
(* Properties of the WebContainer singleton *)

\* C9: WebContainer.boot() is called at most once on a page, and every call of
\* getWebContainer() that yields an instance yields the instance of that boot
C9_BootsOnce ==
    /\ Len(boots) <= 1
    /\ webContainerInstance \in {NoInstance, 1}
    /\ \A c \in 1..NumCallers :
          callers[c].pc = "resolved" => callers[c].value = 1

\* a caller that awaited the boot and a caller that came after it hold the
\* same instance, while a third call is awaited
C9_Witness ==
    \E c, d, e \in 1..NumCallers :
        /\ callers[c].pc = "resolved" /\ callers[c].promise # NoPromise
        /\ callers[d].pc = "resolved" /\ callers[d].promise = NoPromise
        /\ callers[e].pc = "awaiting"
        /\ callers[c].value = callers[d].value

----------------------------------------------------------------------------
(* Properties of extractTar *)

\* an iteration of the loop ends
Iterating == tarPc = "header" /\ tarPc' = "while"

\* C15, the reason given: every iteration of the loop of extractTar moves
\* the read offset forward by at least one block of 512 bytes.
C15_OffsetAdvances ==
    [][Iterating => offset' >= offset + BlockSize]_vars

\* C15: extractTar terminates on every input byte array, also when the
\* size fields are malformed or hostile: a call that has entered the loop
\* returns.
C15_ExtractTarTerminates == (tarPc # "idle") ~> (tarPc = "returned")

\* the entry lists of which the archive is the well-formed archive
EntriesOf(data) == {entries \in EntryLists : Archive(entries) = data}

\* the position of the header of the i-th entry; that of the end-of-archive
\* marker for i = Len(entries) + 1
RECURSIVE HeaderPosition(_, _)
HeaderPosition(entries, i) ==
    IF i = 1 THEN 0
    ELSE HeaderPosition(entries, i - 1)
         + BlockSize * (1 + Len(ContentBlocks(entries[i - 1])))

\* the `size` bytes that follow the header of the i-th entry
BytesAfterHeader(entries, i) ==
    IF entries[i].bytes = 0 THEN NoBytes
    ELSE [from |-> HeaderPosition(entries, i) + BlockSize,
          to |-> HeaderPosition(entries, i) + BlockSize + entries[i].bytes]

\* the root directory the archive wraps its entries in: the first part of
\* the first name that has a '/'
RECURSIVE ArchiveRoot(_)
ArchiveRoot(entries) ==
    IF entries = <<>> THEN <<>>
    ELSE IF Includes(Head(entries).name, "/")
         THEN FirstPart(Head(entries).name) \o <<"/">>
         ELSE ArchiveRoot(Tail(entries))

Indices(entries) == [i \in 1..Len(entries) |-> i]

\* the headers with a non-empty name, in the order of the archive
Named(entries) ==
    LET HasName(i) == entries[i].name # <<>>
    IN  SelectSeq(Indices(entries), HasName)

\* of these, the headers other than the entry of the root directory itself
Listed(entries) ==
    LET NotRoot(i) == /\ entries[i].name # <<>>
                      /\ entries[i].name # ArchiveRoot(entries)
    IN  SelectSeq(Indices(entries), NotRoot)

\* the entries returned are those of these headers, each with its content
EntriesReturned(entries, headers) ==
    /\ Len(files) = Len(headers)
    /\ \A k \in 1..Len(headers) :
           k <= Len(files)
           => files[k].content = BytesAfterHeader(entries, headers[k])

\* every header is read at the 512-byte boundary that follows the content of
\* the header before it, up to the end-of-archive marker
HeadersRead(entries) ==
    /\ tarPc \in {"while", "header"}
       => \E i \in 1..(Len(entries) + 1) : offset = HeaderPosition(entries, i)
    /\ tarPc = "returned"
       => offset = HeaderPosition(entries, Len(entries) + 1)

\* C16 as stated: of a well-formed archive extractTar returns one entry per
\* header with a non-empty name before the end-of-archive marker, its
\* content the `size` bytes after the header, the next header being read at
\* the next 512-byte boundary.
C16_EntryPerNamedHeader ==
    \A entries \in EntriesOf(tarData) :
        /\ HeadersRead(entries)
        /\ tarPc = "returned" => EntriesReturned(entries, Named(entries))

\* C16, amended: of a well-formed archive extractTar returns one entry per
\* header with a non-empty name other than the root directory's own entry,
\* its content the `size` bytes after the header, the next header being read
\* at the next 512-byte boundary.
C16_EntryPerListedHeader ==
    \A entries \in EntriesOf(tarData) :
        /\ HeadersRead(entries)
        /\ tarPc = "returned" => EntriesReturned(entries, Listed(entries))

\* a well-formed archive with its root directory entry and a file of more
\* than one block has been extracted
C16_Witness ==
    /\ tarPc = "returned"
    /\ \E entries \in EntriesOf(tarData) :
           /\ Len(Listed(entries)) < Len(Named(entries))
           /\ \E k \in 1..Len(files) :
                  files[k].content.to - files[k].content.from > BlockSize

\* C17: every path extractTar returns is relative to the repository root:
\* no returned path is empty, begins with the root prefix or ends with '/'
\* (the root prefix is stripped from every entry and the root directory's
\* own entry is omitted).
C17_PathsRelativeToRoot ==
    \A k \in 1..Len(files) :
        /\ files[k].path # <<>>
        /\ rootPrefix # <<>> => ~StartsWith(files[k].path, rootPrefix)
        /\ ~EndsWith(files[k].path, <<"/">>)

----------------------------------------------------------------------------
(* Properties of the tree builders *)

\* the files of the input that are text files
TextFiles ==
    {file \in Range(treeFiles) :
        \/ builder = "projectFiles"
        \/ ~file.isDirectory /\ file.content # Binary}

\* C18: whatever the list of input files and its order, also when one path
\* is a proper prefix of another, the tree built has each text file as a
\* file node at the position its path names, with its contents, and at no
\* other position.
C18_FilesAtTheirPaths ==
    builder # "idle"
    => /\ \A file \in TextFiles :
              FileNode(Split(file.path), file.content) \in tree
       /\ \A node \in tree :
              node.kind = "file"
              => \E file \in TextFiles :
                     node = FileNode(Split(file.path), file.content)

----------------------------------------------------------------------------
(* Properties of a failing model call *)

\* the user message a sendMessage call in progress has inserted
UserRow(r) == [sessionId |-> r.id, role |-> "user", content |-> r.content]

\* C21: when the model call of a sendMessage fails, the call throws and is
\* over (no retry), no assistant message is stored, and the user message it
\* inserted stays in the database.
C21_FailureLeavesUserMessage ==
    [][\A r \in Running :
          (At(r, "sendMessage", "chat") /\ Leaving(r)
              /\ response'.outcome = "thrown")
          => /\ response' = Thrown("sendMessage", r.id)
             /\ reqs' = reqs (-) SetToBag({r})
             /\ messages' = messages
             /\ UserRow(r) \in Range(Flatten(messages'))]_vars

\* a sendMessage has thrown after its user message was stored, and the
\* session holds that message alone
C21_Witness ==
    /\ response = Thrown("sendMessage", 1)
    /\ RowsOf(messages, 1) = <<[sessionId |-> 1, role |-> "user", content |-> "q1"]>>

\* the roles alternate, user first
Alternates(rows) ==
    \A i \in DOMAIN rows :
        rows[i].role = IF i % 2 = 1 THEN "user" ELSE "assistant"

\* the rows of a role among the first n
OfRole(rows, role, n) == {i \in 1..n : rows[i].role = role}

\* every assistant message comes after a user message of its own: no
\* beginning of the list has more assistant than user messages
Answers(rows) ==
    \A n \in DOMAIN rows :
        Cardinality(OfRole(rows, "assistant", n))
            <= Cardinality(OfRole(rows, "user", n))

====
